---- MODULE Spec2Model ----
(***************************************************************************)
(* Metric bookkeeping of omlet's ExtendedModule                            *)
(* (src/omlet/lightning/extended.py): the per-stage epoch meters, the      *)
(* epoch record history, the best-metric values and their checkpointing,   *)
(* driven by the trainer's hooks.                                          *)
(*                                                                         *)
(* Metric values are exact rationals <<num, den>> in lowest terms; a long  *)
(* metric name 'stage/name' is the pair <<stage, name>>.                   *)
(***************************************************************************)
EXTENDS Integers, Sequences, FiniteSets, TLC

VARIABLES
    metrics_meter,        \* self._metrics_meter: stage -> name -> meter
    train_step_meter,     \* self._train_step_meter: name -> meter
    metrics_history,      \* self._metrics_history: sequence of epoch records
    best_metrics_values,  \* self._best_metrics_values: long name -> [value, epoch]
    is_training_started,  \* self._is_training_started
    current_epoch,        \* trainer-owned LightningModule.current_epoch
    patch_depth,          \* how many times __new__ has patched the class
    test_is_default,      \* the subclass inherits test_step / test_epoch_end
    ckpt,                 \* the checkpoint file written by the trainer
    runs,                 \* number of processes started so far
    testing,              \* the trainer runs its test loop
    err,                  \* outcome of the last handler: "ok" or the exception
    upd_log,              \* history variable: update calls since the last reset
    observed,             \* history variable: values handed to update_best
    last_call,            \* history variable: the kind of the last handler call
    constructed_spec,     \* [built, spec]: the program holds a module, and
                          \* its self._best_metrics_spec; NoInstance when
                          \* the constructor raised
    handlers,             \* logging.getLogger(name).handlers, per logger name
    callbacks             \* the FileLogger callbacks constructed so far

vars == <<metrics_meter, train_step_meter, metrics_history, best_metrics_values,
          is_training_started, current_epoch, patch_depth, test_is_default,
          ckpt, runs, testing, err, upd_log, observed, last_call,
          constructed_spec, handlers, callbacks>>

(***************************************************************************)
(* Bounds of the model.                                                    *)
(***************************************************************************)
MaxValue == 2       \* metric values reported by a step are 1..MaxValue
MaxWeight == 2      \* batch sizes are -1..MaxWeight
MaxEpoch == 1       \* the trainer runs epochs 0..MaxEpoch
MaxRuns == 2        \* processes started (a run and its restarts)
MaxInstances == 2   \* instances of the module class created in one process
MaxBatches == 1     \* steps per stage and epoch in the training lifecycle
MaxUpdates == 2      \* steps per stage and epoch when only the meters run
MaxEntries == 2     \* entries written in a best_metrics configuration
MaxResume == 2      \* integer resume values are 0..MaxResume
MaxOverrides == 3   \* command-line overrides of a run

(***************************************************************************)
(* Configuration (hparams) of the modelled module.                         *)
(***************************************************************************)
STAGES == <<"train", "val", "test">>

StageSet == {STAGES[i] : i \in 1..Len(STAGES)}

train_metrics == {"loss"}

val_metrics == {"acc"}

\* test_metrics defaults to val_metrics
test_metrics == val_metrics

MetricNames(stage) ==
    CASE stage = "train" -> train_metrics
      [] stage = "val" -> val_metrics
      [] stage = "test" -> test_metrics

\* best_metrics: {'val/acc': 'max', 'train/loss': 'min'}
best_metrics_spec ==
    [m \in {<<"val", "acc">>, <<"train", "loss">>} |->
        IF m = <<"val", "acc">> THEN "max" ELSE "min"]

\* f'{stage}/{name}'
LongName(stage, name) == <<stage, name>>

EmptyMap == [k \in {} |-> 0]

(***************************************************************************)
(* Rational arithmetic for metric values.                                  *)
(***************************************************************************)
RECURSIVE GCD(_, _)
GCD(a, b) == IF b = 0 THEN a ELSE GCD(b, a % b)

Frac(n, d) == LET g == GCD(n, d) IN <<n \div g, d \div g>>

\* a <= b for rationals with positive denominators
Leq(a, b) == a[1] * b[2] <= b[1] * a[2]

Lt(a, b) == a[1] * b[2] < b[1] * a[2]

Undefined == <<0, 0>>

(***************************************************************************)
(* U.AverageMeter: accumulated weighted sum, accumulated weight, average.  *)
(***************************************************************************)
AverageMeter == [sum |-> 0, count |-> 0]

MeterReset(meter) == [sum |-> 0, count |-> 0]

MeterUpdateRaises(n) == n <= 0

MeterUpdate(meter, val, n) ==
    [sum |-> meter.sum + val * n, count |-> meter.count + n]

MeterValue(meter) ==
    IF meter.count = 0 THEN Undefined ELSE Frac(meter.sum, meter.count)

(***************************************************************************)
(* Metrics book-keeping of ExtendedModule.                                 *)
(***************************************************************************)
\* faulty _reset_epoch_metrics: one that resets no meter, and one that
\* ignores its argument and resets the meters of all stages
ResetsNothing(meter, stages) == meter

ResetsEveryStage(meter, stages) ==
    [stage \in DOMAIN meter |->
        [name \in DOMAIN meter[stage] |-> MeterReset(meter[stage][name])]]

\* _reset_epoch_metrics(stages): 'all' or one stage
ResetEpochMetrics(meter, stages) ==
    [stage \in DOMAIN meter |->
        IF stages = "all" \/ stages = stage
        THEN [name \in DOMAIN meter[stage] |-> MeterReset(meter[stage][name])]
        ELSE meter[stage]]

\* _reset_train_step_metrics
ResetTrainStepMetrics(step_meter) ==
    [name \in DOMAIN step_meter |-> MeterReset(step_meter[name])]

\* _get_avg_epoch_metrics(stage, '{name}')
GetAvgEpochMetrics(meter, stage) ==
    [name \in DOMAIN meter[stage] |-> MeterValue(meter[stage][name])]

\* a faulty _update_epoch_metrics that lets every batch size through
NeverRaises(meter, stage, output, batch_size) == FALSE

\* _update_epoch_metrics raises iff some key of output has a meter and the
\* meter rejects the batch size
UpdateEpochMetricsRaises(meter, stage, output, batch_size) ==
    \E key \in DOMAIN output :
        key \in DOMAIN meter[stage] /\ MeterUpdateRaises(batch_size)

\* a faulty _update_epoch_metrics that counts every batch as one sample
UpdateUnweighted(meter, stage, output, batch_size) ==
    [meter EXCEPT ![stage] =
        [name \in DOMAIN meter[stage] |->
            IF name \in DOMAIN output
            THEN MeterUpdate(meter[stage][name], output[name], 1)
            ELSE meter[stage][name]]]

\* a faulty _update_epoch_metrics without the test `key in meters`: a key
\* without a meter is folded into the meters of the stage
UpdateAnyKey(meter, stage, output, batch_size) ==
    [meter EXCEPT ![stage] =
        [name \in DOMAIN meter[stage] |->
            IF name \in DOMAIN output
            THEN MeterUpdate(meter[stage][name], output[name], batch_size)
            ELSE IF DOMAIN output # {}
            THEN MeterUpdate(meter[stage][name],
                             output[CHOOSE key \in DOMAIN output : TRUE],
                             batch_size)
            ELSE meter[stage][name]]]

\* _update_epoch_metrics(stage, output, batch_size)
UpdateEpochMetrics(meter, stage, output, batch_size) ==
    [meter EXCEPT ![stage] =
        [name \in DOMAIN meter[stage] |->
            IF name \in DOMAIN output
            THEN MeterUpdate(meter[stage][name], output[name], batch_size)
            ELSE meter[stage][name]]]

\* _update_train_step_metrics(output, batch_size)
UpdateTrainStepMetrics(step_meter, output, batch_size) ==
    [name \in DOMAIN step_meter |->
        IF name \in DOMAIN output
        THEN MeterUpdate(step_meter[name], output[name], batch_size)
        ELSE step_meter[name]]

\* faulty comparisons: every new value replaces the best; the direction is
\* ignored; a tie does not replace
AlwaysReplaces(is_max, new_value, old_value) == TRUE

IgnoresDirection(is_max, new_value, old_value) == Leq(old_value, new_value)

StrictlyBetter(is_max, new_value, old_value) ==
    \/ is_max /\ Lt(old_value, new_value)
    \/ ~is_max /\ Lt(new_value, old_value)

\* the test of lines 364-365: new_value is at least as good as the stored one
IsAtLeastAsGood(is_max, new_value, old_value) ==
    \/ is_max /\ Leq(old_value, new_value)
    \/ ~is_max /\ Leq(new_value, old_value)

\* the assertion of _update_best_metrics
UpdateBestMetricsRaises(metric_name) ==
    metric_name \notin DOMAIN best_metrics_spec

\* _update_best_metrics(metric_name, new_value) at self.current_epoch = epoch
UpdateBestMetrics(best, metric_name, new_value, epoch) ==
    LET is_max == best_metrics_spec[metric_name] = "max"
        entry == [value |-> new_value, epoch |-> epoch]
    IN  IF metric_name \in DOMAIN best
        THEN IF IsAtLeastAsGood(is_max, new_value, best[metric_name].value)
             THEN [best EXCEPT ![metric_name] = entry]
             ELSE best
        ELSE [m \in DOMAIN best \cup {metric_name} |->
                 IF m = metric_name THEN entry ELSE best[m]]

\* a faulty dict.update that keeps the entries d already has
KeepsOldEntries(d, u) ==
    [k \in DOMAIN d \cup DOMAIN u |-> IF k \in DOMAIN d THEN d[k] ELSE u[k]]

\* dict.update
DictUpdate(d, u) ==
    [k \in DOMAIN d \cup DOMAIN u |-> IF k \in DOMAIN u THEN u[k] ELSE d[k]]

\* a faulty record_epoch that appends a record at every call
AlwaysAppends(history, epoch, stage, info) ==
    Append(history,
           [[epoch |-> epoch, train |-> EmptyMap, val |-> EmptyMap,
             test |-> EmptyMap] EXCEPT ![stage] = info])

\* the record_epoch part of _epoch_end: append a record or merge into the last
RecordEpoch(history, epoch, stage, info) ==
    IF Len(history) = 0 \/ history[Len(history)].epoch # epoch
    THEN LET new_epoch_info ==
                 [epoch |-> epoch, train |-> EmptyMap, val |-> EmptyMap,
                  test |-> EmptyMap]
         IN  Append(history,
                    [new_epoch_info EXCEPT ![stage] = DictUpdate(@, info)])
    ELSE [history EXCEPT ![Len(history)][stage] = DictUpdate(@, info)]

\* the best-metric loop of _epoch_end over info_long_name
UpdateBestOfStage(best, stage, info, epoch) ==
    LET tracked == {name \in DOMAIN info :
                       LongName(stage, name) \in DOMAIN best_metrics_spec}
        long == {LongName(stage, name) : name \in tracked}
    IN  [m \in DOMAIN best \cup long |->
            IF m \in long
            THEN UpdateBestMetrics(best, m, info[m[2]], epoch)[m]
            ELSE best[m]]

\* a faulty _epoch_end without the test of _is_training_started
RecordsBeforeTraining(s, meter, started, stage, epoch) ==
    LET info == GetAvgEpochMetrics(meter, stage)
    IN  [history |-> RecordEpoch(s.history, epoch, stage, info),
         best |-> UpdateBestOfStage(s.best, stage, info, epoch)]

\* _epoch_end(stage) on s = [history, best]; reduce() is the identity in a
\* single process
EpochEnd(s, meter, started, stage, epoch) ==
    LET info == GetAvgEpochMetrics(meter, stage)
    IN  IF started
        THEN [history |-> RecordEpoch(s.history, epoch, stage, info),
              best |-> UpdateBestOfStage(s.best, stage, info, epoch)]
        ELSE s

\* _after_step(stage, batch, output) on s = [meter, step_meter, err];
\* batch_size is get_batch_size(batch), log_now is
\* batch_idx % row_log_interval == 0
AfterStep(s, stage, output, batch_size, log_now) ==
    IF s.err # "ok" THEN s
    ELSE IF UpdateEpochMetricsRaises(s.meter, stage, output, batch_size)
    THEN [s EXCEPT !.err = "error"]
    ELSE LET stepped == UpdateTrainStepMetrics(s.step_meter, output, batch_size)
         IN  [meter |-> UpdateEpochMetrics(s.meter, stage, output, batch_size),
              step_meter |->
                  IF stage = "train"
                  THEN IF log_now THEN ResetTrainStepMetrics(stepped)
                       ELSE stepped
                  ELSE s.step_meter,
              err |-> "ok"]

(***************************************************************************)
(* The class-level patch of __new__: every instantiation wraps the step    *)
(* and epoch-end methods once more, and the inherited test methods call    *)
(* the (patched) validation methods.                                       *)
(***************************************************************************)
Repeat(x, n) == [i \in 1..n |-> x]

\* the stages whose _after_step / _epoch_end run, in order, in one call of
\* the patched method of `stage`
Invocations(stage, depth, is_default) ==
    IF stage = "test" /\ is_default
    THEN Repeat("val", depth) \o Repeat("test", depth)
    ELSE Repeat(stage, depth)

RECURSIVE RunAfterSteps(_, _, _, _, _)
RunAfterSteps(s, stages, output, batch_size, log_now) ==
    IF stages = <<>> THEN s
    ELSE RunAfterSteps(AfterStep(s, Head(stages), output, batch_size, log_now),
                       Tail(stages), output, batch_size, log_now)

RECURSIVE RunEpochEnds(_, _, _, _, _)
RunEpochEnds(s, stages, meter, started, epoch) ==
    IF stages = <<>> THEN s
    ELSE RunEpochEnds(EpochEnd(s, meter, started, Head(stages), epoch),
                      Tail(stages), meter, started, epoch)

(***************************************************************************)
(* Inputs and history variables.                                           *)
(***************************************************************************)
Values == 1..MaxValue

Weights == (-1)..MaxWeight

\* what a user step returns: a value for every metric name of the stage,
\* the same plus a diagnostic key without a meter, or the diagnostic alone
WithAux(output) == DictUpdate(output, [k \in {"aux"} |-> 1])

Outputs(stage) ==
    LET full == [MetricNames(stage) -> Values]
    IN  full \cup {WithAux(o) : o \in full} \cup {WithAux(EmptyMap)}

NoCall ==
    [op |-> "none", stage |-> "none", name |-> <<"none", "none">>,
     value |-> Undefined, had |-> FALSE,
     prior |-> [value |-> Undefined, epoch |-> 0]]

\* the kind of step call: no key of output has a meter of the stage, the
\* batch size is not positive, or a regular step
StepKind(stage, output, batch_size) ==
    IF DOMAIN output \cap MetricNames(stage) = {} THEN "step_unmetered"
    ELSE IF batch_size <= 0 THEN "step_nonpositive"
    ELSE "step"

\* upd_log after one call update(stage, name, output[name], batch_size) per
\* metered key of output; only calls with a positive weight are logged
LogUpdate(log, stage, output, batch_size) ==
    IF batch_size <= 0 THEN log
    ELSE [st \in DOMAIN log |->
             [name \in DOMAIN log[st] |->
                 IF st = stage /\ name \in DOMAIN output
                 THEN Append(log[st][name], <<output[name], batch_size>>)
                 ELSE log[st][name]]]

RECURSIVE LogUpdates(_, _, _, _)
LogUpdates(log, stages, output, batch_size) ==
    IF stages = <<>> THEN log
    ELSE LogUpdates(LogUpdate(log, Head(stages), output, batch_size),
                    Tail(stages), output, batch_size)

EmptyLog == [stage \in StageSet |-> [name \in MetricNames(stage) |-> <<>>]]

NoneObserved == [m \in DOMAIN best_metrics_spec |-> {}]

NoCkpt ==
    [saved |-> FALSE, history |-> <<>>, best |-> EmptyMap, epoch |-> 0,
     observed |-> NoneObserved]

\* the values _epoch_end(stage) hands to update_best for metric m
ValuesFor(meter, stage, m) ==
    {MeterValue(meter[stage][name]) :
        name \in {n \in DOMAIN meter[stage] : LongName(stage, n) = m}}

\* the kind of epoch-end call: before training nothing is recorded; a
\* record is appended, or the last record is merged into, overwriting
\* other averages of a stage or not
EpochEndKind(history, meter, started, ran, epoch) ==
    IF ~started THEN "epoch_end_unrecorded"
    ELSE IF history = <<>> \/ history[Len(history)].epoch # epoch
    THEN "epoch_end_append"
    ELSE IF \E st \in ran :
                /\ DOMAIN history[Len(history)][st] # {}
                /\ history[Len(history)][st] # GetAvgEpochMetrics(meter, st)
    THEN "epoch_end_overwrite"
    ELSE "epoch_end_merge"

HasData(meter, stage) ==
    \A name \in DOMAIN meter[stage] : meter[stage][name].count > 0

\* the trainer calls the hooks of a stage inside that stage's loop
InLoop(stage) ==
    CASE stage = "train" -> is_training_started /\ ~testing
      [] stage = "val" -> ~testing
      [] stage = "test" -> testing

(***************************************************************************)
(* State after ExtendedModule.__init__ in a fresh process.                 *)
(***************************************************************************)
\* the loggers of the logging module: None is the root logger
LoggerNames == {"root", "omlet", "lightning"}

\* no logger has a handler
NoHandlers == [logger_name \in LoggerNames |-> <<>>]

NewMeters ==
    [stage \in StageSet |-> [name \in MetricNames(stage) |-> AverageMeter]]

NewStepMeters == [name \in train_metrics |-> AverageMeter]

Init ==
    /\ metrics_meter = NewMeters
    /\ train_step_meter = NewStepMeters
    /\ metrics_history = <<>>
    /\ best_metrics_values = EmptyMap
    /\ is_training_started = FALSE
    /\ current_epoch = 0
    /\ patch_depth = 1
    /\ test_is_default \in BOOLEAN
    /\ ckpt = NoCkpt
    /\ runs = 1
    /\ testing = FALSE
    /\ err = "ok"
    /\ upd_log = EmptyLog
    /\ observed = NoneObserved
    /\ last_call = NoCall
    /\ constructed_spec = [built |-> TRUE, spec |-> best_metrics_spec]
    /\ handlers = NoHandlers
    /\ callbacks = {}

(***************************************************************************)
(* Handlers.                                                               *)
(***************************************************************************)
\* __new__ of one more instance of the class, before training: the class
\* methods are wrapped once more
NewInstance ==
    /\ ~is_training_started
    /\ patch_depth < MaxInstances
    /\ patch_depth' = patch_depth + 1
    /\ last_call' = [NoCall EXCEPT !.op = "new"]
    /\ UNCHANGED <<handlers, callbacks, constructed_spec,
                   metrics_meter, train_step_meter, metrics_history,
                   best_metrics_values, is_training_started, current_epoch,
                   test_is_default, ckpt, runs, testing, err, upd_log,
                   observed>>

\* on_epoch_start, called by the trainer's epoch loop after it has set
\* current_epoch (the start epoch first, then one more per epoch)
OnEpochStart ==
    LET epoch == IF is_training_started THEN current_epoch + 1
                 ELSE current_epoch
    IN  /\ ~testing
        /\ epoch <= MaxEpoch
        /\ current_epoch' = epoch
        /\ metrics_meter' = ResetEpochMetrics(metrics_meter, "all")
        /\ train_step_meter' = ResetTrainStepMetrics(train_step_meter)
        /\ is_training_started' = TRUE
        /\ err' = "ok"
        /\ upd_log' = EmptyLog
        /\ last_call' = [NoCall EXCEPT !.op = "epoch_start"]
        /\ UNCHANGED <<handlers, callbacks, constructed_spec,
                       metrics_history, best_metrics_values, patch_depth,
                       test_is_default, ckpt, runs, testing, observed>>

\* the patched training_step / validation_step / test_step; at most `limit`
\* metered steps per stage and epoch
Step(stage, output, batch_size, log_now, limit) ==
    LET stages == Invocations(stage, patch_depth, test_is_default)
        s == RunAfterSteps([meter |-> metrics_meter,
                            step_meter |-> train_step_meter, err |-> "ok"],
                           stages, output, batch_size, log_now)
    IN  /\ InLoop(stage)
        /\ \A name \in MetricNames(stage) :
               Len(upd_log[stage][name]) < limit * patch_depth
        /\ metrics_meter' = s.meter
        /\ train_step_meter' = s.step_meter
        /\ err' = s.err
        /\ upd_log' = LogUpdates(upd_log, stages, output, batch_size)
        /\ last_call' = [NoCall EXCEPT !.op = StepKind(stage, output, batch_size)]
        /\ UNCHANGED <<handlers, callbacks, constructed_spec,
                       metrics_history, best_metrics_values,
                       is_training_started, current_epoch, patch_depth,
                       test_is_default, ckpt, runs, testing, observed>>

\* the patched training_epoch_end / validation_epoch_end / test_epoch_end,
\* called by the trainer after the batches of the stage
EpochEndCall(stage) ==
    LET stages == Invocations(stage, patch_depth, test_is_default)
        ran == {stages[i] : i \in 1..Len(stages)}
        s == RunEpochEnds([history |-> metrics_history,
                           best |-> best_metrics_values],
                          stages, metrics_meter, is_training_started,
                          current_epoch)
    IN  /\ InLoop(stage)
        /\ \A st \in ran : HasData(metrics_meter, st)
        /\ metrics_history' = s.history
        /\ best_metrics_values' = s.best
        /\ err' = "ok"
        /\ observed' =
              IF is_training_started
              THEN [m \in DOMAIN observed |->
                       observed[m] \cup
                       UNION {ValuesFor(metrics_meter, st, m) : st \in ran}]
              ELSE observed
        /\ last_call' =
              [NoCall EXCEPT !.op = EpochEndKind(metrics_history, metrics_meter,
                                                 is_training_started, ran,
                                                 current_epoch),
                             !.stage = stage]
        /\ UNCHANGED <<handlers, callbacks, constructed_spec,
                       metrics_meter, train_step_meter, is_training_started,
                       current_epoch, patch_depth, test_is_default, ckpt, runs,
                       testing, upd_log>>

\* trainer.test(): the test loop runs after (or instead of) training
BeginTest ==
    /\ ~testing
    /\ testing' = TRUE
    /\ err' = "ok"
    /\ last_call' = [NoCall EXCEPT !.op = "test"]
    /\ UNCHANGED <<handlers, callbacks, constructed_spec,
                   metrics_meter, train_step_meter, metrics_history,
                   best_metrics_values, is_training_started, current_epoch,
                   patch_depth, test_is_default, ckpt, runs, upd_log,
                   observed>>

\* on_save_checkpoint, called when the checkpoint callback writes a
\* checkpoint after a validation run of the current epoch; the trainer
\* stores current_epoch + 1 as the epoch to resume at.  The checkpoints of
\* the last process are never read and are left out.
OnSaveCheckpoint ==
    /\ is_training_started
    /\ ~testing
    /\ runs < MaxRuns
    /\ metrics_history # <<>>
    /\ metrics_history[Len(metrics_history)].epoch = current_epoch
    /\ DOMAIN metrics_history[Len(metrics_history)].val # {}
    /\ ckpt' = [saved |-> TRUE, history |-> metrics_history,
                best |-> best_metrics_values, epoch |-> current_epoch + 1,
                observed |-> observed]
    /\ err' = "ok"
    /\ last_call' = [NoCall EXCEPT !.op = "save"]
    /\ UNCHANGED <<handlers, callbacks, constructed_spec,
                   metrics_meter, train_step_meter, metrics_history,
                   best_metrics_values, is_training_started, current_epoch,
                   patch_depth, test_is_default, runs, testing, upd_log,
                   observed>>

\* a faulty on_load_checkpoint that fills only a module without history
LoadsIntoEmptyOnly(s, checkpoint) ==
    IF s.history = <<>>
    THEN [history |-> checkpoint.history, best |-> checkpoint.best]
    ELSE s

\* on_load_checkpoint(checkpoint)
OnLoadCheckpoint(s, checkpoint) ==
    [history |-> checkpoint.history, best |-> checkpoint.best]

\* A new process restores the checkpoint: the class is loaded afresh, the
\* module is constructed and on_load_checkpoint is called before training.
\* With resume the trainer was given resume_from_checkpoint and continues at
\* the checkpoint's epoch; without, the module was loaded from the
\* checkpoint and the trainer starts at epoch 0.
Restore(resume) ==
    LET s == OnLoadCheckpoint([history |-> <<>>, best |-> EmptyMap], ckpt)
    IN  /\ runs < MaxRuns
        /\ ckpt.saved
        /\ runs' = runs + 1
        /\ metrics_meter' = NewMeters
        /\ train_step_meter' = NewStepMeters
        /\ is_training_started' = FALSE
        /\ patch_depth' = 1
        /\ testing' = FALSE
        /\ metrics_history' = s.history
        /\ best_metrics_values' = s.best
        /\ current_epoch' = IF resume THEN ckpt.epoch ELSE 0
        /\ err' = "ok"
        /\ upd_log' = EmptyLog
        /\ observed' = ckpt.observed
        /\ last_call' = [NoCall EXCEPT !.op = "load"]
        /\ UNCHANGED <<test_is_default, ckpt, constructed_spec, handlers,
                       callbacks>>

\* The training lifecycle of one instance per process: every step reports
\* all metrics of its stage for a batch of one sample, and the step log is
\* written at every batch.
Next ==
    \/ OnEpochStart
    \/ BeginTest
    \/ \E stage \in StageSet :
           \E output \in [MetricNames(stage) -> Values] :
               Step(stage, output, 1, TRUE, MaxBatches)
    \/ \E stage \in StageSet : EpochEndCall(stage)
    \/ OnSaveCheckpoint
    \/ \E resume \in BOOLEAN : Restore(resume)

Spec == Init /\ [][Next]_vars

(***************************************************************************)
(* The meters alone: steps with every kind of output and batch size, the   *)
(* step log written at some batches only, the class instantiated once or   *)
(* more before the run.                                                    *)
(***************************************************************************)
MeterNext ==
    \/ NewInstance
    \/ OnEpochStart
    \/ BeginTest
    \/ \E stage \in StageSet, batch_size \in Weights :
           \E output \in Outputs(stage),
              log_now \in (IF stage = "train" THEN BOOLEAN ELSE {FALSE}) :
               Step(stage, output, batch_size, log_now, MaxUpdates)

MeterSpec == Init /\ [][MeterNext]_vars

(***************************************************************************)
(* _update_best_metrics alone: direct calls with any metric name and       *)
(* value, at the epochs the trainer goes through.                          *)
(***************************************************************************)
BestNames ==
    DOMAIN best_metrics_spec \cup {<<"test", "acc">>, <<"missing", "metric">>}

BestValues == {Frac(n, d) : n \in Values, d \in 1..2}

\* a faulty _update_best_metrics that skips names outside the spec
UpdateBestSkipsUnknown(metric_name, new_value) ==
    /\ err' = "ok"
    /\ IF metric_name \in DOMAIN best_metrics_spec
       THEN /\ best_metrics_values' =
                  UpdateBestMetrics(best_metrics_values, metric_name,
                                    new_value, current_epoch)
            /\ observed' = [observed EXCEPT ![metric_name] = @ \cup {new_value}]
       ELSE UNCHANGED <<best_metrics_values, observed>>
    /\ last_call' =
          [NoCall EXCEPT !.op = "update_best", !.name = metric_name,
                         !.value = new_value]
    /\ UNCHANGED <<handlers, callbacks, constructed_spec,
                   metrics_meter, train_step_meter, metrics_history,
                   is_training_started, current_epoch, patch_depth,
                   test_is_default, ckpt, runs, testing, upd_log>>

\* self._update_best_metrics(metric_name, new_value)
UpdateBest(metric_name, new_value) ==
    /\ IF UpdateBestMetricsRaises(metric_name)
       THEN /\ err' = "error"
            /\ UNCHANGED <<best_metrics_values, observed>>
       ELSE /\ err' = "ok"
            /\ best_metrics_values' =
                  UpdateBestMetrics(best_metrics_values, metric_name,
                                    new_value, current_epoch)
            /\ observed' = [observed EXCEPT ![metric_name] = @ \cup {new_value}]
    /\ last_call' =
          [NoCall EXCEPT !.op = "update_best", !.name = metric_name,
                         !.value = new_value,
                         !.had = metric_name \in DOMAIN best_metrics_values,
                         !.prior = IF metric_name \in DOMAIN best_metrics_values
                                   THEN best_metrics_values[metric_name]
                                   ELSE NoCall.prior]
    /\ UNCHANGED <<handlers, callbacks, constructed_spec,
                   metrics_meter, train_step_meter, metrics_history,
                   is_training_started, current_epoch, patch_depth,
                   test_is_default, ckpt, runs, testing, upd_log>>

BestNext ==
    \/ OnEpochStart
    \/ \E metric_name \in BestNames, new_value \in BestValues :
           UpdateBest(metric_name, new_value)

BestSpec == Init /\ [][BestNext]_vars

(***************************************************************************)
(* Properties.                                                             *)
(***************************************************************************)
IsMax(m) == best_metrics_spec[m] = "max"

\* a is strictly worse than b under the direction of metric m
StrictlyWorse(m, a, b) == IF IsMax(m) THEN Lt(a, b) ELSE Lt(b, a)

LastRecord(history) == history[Len(history)]

\* the stages whose _epoch_end ran in the last epoch-end call
RanStages(call) ==
    LET stages == Invocations(call.stage, patch_depth, test_is_default)
    IN  {stages[i] : i \in 1..Len(stages)}

\* C1: for every tracked metric, a best value is stored iff a value has been
\* observed, and the stored value is the maximum (direction max) or the
\* minimum (direction min) of all values handed to update_best so far.
C1_BestIsExtremum ==
    \A m \in DOMAIN best_metrics_spec :
        /\ m \in DOMAIN best_metrics_values <=> observed[m] # {}
        /\ m \in DOMAIN best_metrics_values =>
              /\ best_metrics_values[m].value \in observed[m]
              /\ \A v \in observed[m] :
                     ~StrictlyWorse(m, best_metrics_values[m].value, v)

\* a max metric and a min metric have each seen two different values
C1_Witness ==
    /\ Cardinality(observed[<<"val", "acc">>]) >= 2
    /\ Cardinality(observed[<<"train", "loss">>]) >= 2
    /\ DOMAIN best_metrics_values = DOMAIN best_metrics_spec

\* C2: an update_best call with a value strictly worse than the stored best
\* (lower for max, higher for min) leaves the stored value and epoch as
\* they were.
C2_WorseKeepsBest ==
    (/\ last_call.op = "update_best"
     /\ last_call.name \in DOMAIN best_metrics_spec
     /\ last_call.had
     /\ StrictlyWorse(last_call.name, last_call.value, last_call.prior.value))
    => best_metrics_values[last_call.name] = last_call.prior

\* val/acc (max): a lower value arrives in a later epoch than the best
C2_Witness ==
    /\ last_call.op = "update_best"
    /\ last_call.name = <<"val", "acc">>
    /\ last_call.had
    /\ Lt(last_call.value, last_call.prior.value)
    /\ last_call.prior.epoch < current_epoch

\* C3: an update_best call with a value equal to the stored best keeps the
\* value and sets the stored epoch to the epoch of the call.
C3_TieTakesNewEpoch ==
    (/\ last_call.op = "update_best"
     /\ last_call.name \in DOMAIN best_metrics_spec
     /\ last_call.had
     /\ last_call.value = last_call.prior.value)
    => best_metrics_values[last_call.name] =
           [value |-> last_call.prior.value, epoch |-> current_epoch]

\* train/loss (min): the stored value arrives again in a later epoch
C3_Witness ==
    /\ last_call.op = "update_best"
    /\ last_call.name = <<"train", "loss">>
    /\ last_call.had
    /\ last_call.value = last_call.prior.value
    /\ last_call.prior.epoch < current_epoch

\* C4: an update_best call for a metric name that is not in the best-metric
\* spec raises and leaves the best-value mapping unchanged.
C4_UnknownBestRaises ==
    [][(/\ last_call'.op = "update_best"
        /\ last_call'.name \notin DOMAIN best_metrics_spec)
       => (/\ err' = "error"
           /\ best_metrics_values' = best_metrics_values)]_vars

C4_Witness ==
    /\ last_call.op = "update_best"
    /\ last_call.name = <<"missing", "metric">>
    /\ err = "error"
    /\ best_metrics_values # EmptyMap

\* an epoch-end call that finds the last record at the current epoch
MergeKinds == {"epoch_end_merge", "epoch_end_overwrite"}

\* C5: when the epoch-end of one stage follows the epoch-end of another
\* stage in the same epoch, no second record is made for the epoch: the
\* one record of the epoch keeps the averages of the earlier stage and
\* holds the averages of the stage that ended now.
C5_TwoStagesOneRecord ==
    [][(/\ last_call'.op \in MergeKinds
        /\ \E other \in StageSet \ RanStages(last_call') :
               DOMAIN LastRecord(metrics_history)[other] # {})
       => (/\ Len(metrics_history') = Len(metrics_history)
           /\ LastRecord(metrics_history').epoch = current_epoch
           /\ \A other \in StageSet \ RanStages(last_call') :
                  LastRecord(metrics_history')[other] =
                      LastRecord(metrics_history)[other]
           /\ \A stage \in RanStages(last_call') :
                  LastRecord(metrics_history')[stage] =
                      GetAvgEpochMetrics(metrics_meter, stage))]_vars

\* the validation epoch-end has merged into the record the training
\* epoch-end made: one record, both stages
C5_Witness ==
    /\ last_call.op = "epoch_end_merge"
    /\ last_call.stage = "val"
    /\ Len(metrics_history) = 1
    /\ DOMAIN LastRecord(metrics_history).train # {}
    /\ DOMAIN LastRecord(metrics_history).val # {}

\* C6: the epoch indices of the history are strictly increasing along the
\* list.  Violated: a module restored from a checkpoint in a run that starts
\* again at epoch 0 appends a record of epoch 0 after the restored ones.
C6_EpochsStrictlyIncreasing ==
    \A i \in 1..Len(metrics_history) - 1 :
        metrics_history[i].epoch < metrics_history[i + 1].epoch

\* C7: when an epoch-end call merges into the last record, the sub-mapping
\* of each stage that ended equals the averages of this call, and the
\* sub-mappings of the other stages and all earlier records are unchanged.
C7_MergeOverwritesStageOnly ==
    [][last_call'.op \in MergeKinds
       => (/\ Len(metrics_history') = Len(metrics_history)
           /\ \A i \in 1..Len(metrics_history) - 1 :
                  metrics_history'[i] = metrics_history[i]
           /\ LastRecord(metrics_history').epoch =
                  LastRecord(metrics_history).epoch
           /\ \A stage \in StageSet :
                  LastRecord(metrics_history')[stage] =
                      IF stage \in RanStages(last_call')
                      THEN GetAvgEpochMetrics(metrics_meter, stage)
                      ELSE LastRecord(metrics_history)[stage])]_vars

\* a merge that replaced averages the record already held for the stage,
\* with an earlier record in the history
C7_Witness ==
    /\ last_call.op = "epoch_end_overwrite"
    /\ Len(metrics_history) >= 2

RECURSIVE SumOfWeights(_)
SumOfWeights(log) ==
    IF log = <<>> THEN 0 ELSE Head(log)[2] + SumOfWeights(Tail(log))

RECURSIVE WeightedSum(_)
WeightedSum(log) ==
    IF log = <<>> THEN 0
    ELSE Head(log)[1] * Head(log)[2] + WeightedSum(Tail(log))

MeterCounts(meter) ==
    {meter[stage][name].count : <<stage, name>> \in
        {<<st, n>> \in StageSet \X (train_metrics \cup val_metrics) :
            n \in DOMAIN meter[st]}}

\* C8: a step whose output has no key among the meters of its stage raises
\* nothing and leaves every meter of every stage, and so every epoch
\* average, unchanged.
C8_UnknownNameIsNoOp ==
    [][last_call'.op = "step_unmetered"
       => (/\ err' = "ok"
           /\ metrics_meter' = metrics_meter
           /\ \A stage \in StageSet :
                  GetAvgEpochMetrics(metrics_meter', stage) =
                      GetAvgEpochMetrics(metrics_meter, stage))]_vars

\* such a step has been taken while meters hold data
C8_Witness ==
    /\ last_call.op = "step_unmetered"
    /\ err = "ok"
    /\ \E count \in MeterCounts(metrics_meter) : count > 0

C10_WeightedMean ==
    \A stage \in StageSet : \A name \in MetricNames(stage) :
        LET log == upd_log[stage][name]
            avg == GetAvgEpochMetrics(metrics_meter, stage)[name]
        IN  log # <<>> =>
                /\ avg[2] > 0
                /\ avg[1] * SumOfWeights(log) = WeightedSum(log) * avg[2]

\* two updates of different values and weights whose mean is no integer
C10_Witness ==
    \E stage \in StageSet : \E name \in MetricNames(stage) :
        LET log == upd_log[stage][name]
        IN  /\ Len(log) = 2
            /\ log[1][1] # log[2][1]
            /\ log[1][2] # log[2][2]
            /\ GetAvgEpochMetrics(metrics_meter, stage)[name][2] > 1

(***************************************************************************)
(* _reset_epoch_metrics for one stage: direct calls between the steps of   *)
(* a run in which every step reports all metrics of its stage for a batch  *)
(* of 1..MaxWeight samples, while no meter has seen MaxUpdates updates     *)
(* since its reset.                                                        *)
(***************************************************************************)
\* self._reset_epoch_metrics(stage)
ResetStage(stage) ==
    /\ metrics_meter' = ResetEpochMetrics(metrics_meter, stage)
    /\ upd_log' = [upd_log EXCEPT ![stage] = EmptyLog[stage]]
    /\ err' = "ok"
    /\ last_call' = [NoCall EXCEPT !.op = "reset", !.stage = stage,
                                   !.had = HasData(metrics_meter, stage)]
    /\ UNCHANGED <<handlers, callbacks, constructed_spec,
                   train_step_meter, metrics_history, best_metrics_values,
                   is_training_started, current_epoch, patch_depth,
                   test_is_default, ckpt, runs, testing, observed>>

ResetNext ==
    \/ OnEpochStart
    \/ BeginTest
    \/ \E stage \in StageSet, batch_size \in 1..MaxWeight :
           \E output \in [MetricNames(stage) -> Values] :
               /\ \A st \in StageSet : \A name \in MetricNames(st) :
                      Len(upd_log[st][name]) < MaxUpdates
               /\ Step(stage, output, batch_size, TRUE, MaxUpdates)
    \/ \E stage \in StageSet : ResetStage(stage)

ResetSpec == Init /\ [][ResetNext]_vars

\* C11: the average of every meter is undefined when no update was made
\* since the last reset of its stage, and otherwise the weighted mean of
\* the updates made since that reset alone: no earlier update counts.
C11_ResetForgetsEarlierUpdates ==
    \A stage \in StageSet : \A name \in MetricNames(stage) :
        LET log == upd_log[stage][name]
            avg == GetAvgEpochMetrics(metrics_meter, stage)[name]
        IN  IF log = <<>> THEN avg = Undefined
            ELSE /\ avg[2] > 0
                 /\ avg[1] * SumOfWeights(log) = WeightedSum(log) * avg[2]

\* a stage whose meters held data has just been reset
C11_Witness ==
    /\ last_call.op = "reset"
    /\ last_call.had
    /\ \A name \in MetricNames(last_call.stage) :
           GetAvgEpochMetrics(metrics_meter, last_call.stage)[name] = Undefined

\* C20: a reset of one stage leaves the epoch meters of the other two
\* stages with the sums and weights they had.
C20_ResetOfOneStageOnly ==
    [][last_call'.op = "reset"
       => \A other \in StageSet \ {last_call'.stage} :
              metrics_meter'[other] = metrics_meter[other]]_vars

\* the validation meters were reset while the training and test meters
\* hold data
C20_Witness ==
    /\ last_call.op = "reset"
    /\ last_call.stage = "val"
    /\ last_call.had
    /\ HasData(metrics_meter, "train")
    /\ HasData(metrics_meter, "test")
    /\ ~HasData(metrics_meter, "val")

(***************************************************************************)
(* Construction: the program builds its module from hparams whose          *)
(* best_metrics is written as a list of `name: direction` entries; a name  *)
(* 'a/b' is the sequence of its parts <<"a", "b">>.  Steps follow only     *)
(* when the constructor returned a module.                                 *)
(***************************************************************************)
NoInstance == [built |-> FALSE, spec |-> EmptyMap]

EntryNames == {<<"val", "acc">>, <<"train", "loss">>, <<"acc">>}

EntryDirections == {"max", "min", "avg"}

EntryLists ==
    UNION {[1..n -> EntryNames \X EntryDirections] : n \in 0..MaxEntries}

\* the mapping a dict literal / YAML mapping with these entries denotes:
\* a later entry of the same name replaces the earlier one
RECURSIVE DictOf(_)
DictOf(entries) ==
    IF entries = <<>> THEN EmptyMap
    ELSE LET n == Len(entries)
             k == entries[n][1]
             rest == DictOf(SubSeq(entries, 1, n - 1))
         IN  [name \in DOMAIN rest \cup {k} |->
                 IF name = k THEN entries[n][2] ELSE rest[name]]

\* '/' in name
HasSeparator(name) == Len(name) >= 2

\* a faulty validation that only looks at the names
ChecksNamesOnly(best_metrics) ==
    \E name \in DOMAIN best_metrics : ~HasSeparator(name)

\* the assertions of __init__ over best_metrics.items()
ConstructorRaises(best_metrics) ==
    \E name \in DOMAIN best_metrics :
        \/ ~HasSeparator(name)
        \/ best_metrics[name] \notin {"min", "max"}

\* module = Cls(hparams): __new__ patches the class, __init__ sets the
\* fields and validates best_metrics
Construct(entries) ==
    LET best_metrics == DictOf(entries)
    IN  /\ patch_depth < MaxInstances
        /\ ~is_training_started
        /\ patch_depth' = patch_depth + 1
        /\ last_call' = [op |-> "construct", entries |-> entries]
        /\ IF ConstructorRaises(best_metrics)
           THEN /\ err' = "error"
                /\ constructed_spec' = NoInstance
                /\ UNCHANGED <<metrics_meter, train_step_meter,
                               metrics_history, best_metrics_values, upd_log,
                               observed>>
           ELSE /\ err' = "ok"
                /\ constructed_spec' = [built |-> TRUE, spec |-> best_metrics]
                /\ metrics_meter' = NewMeters
                /\ train_step_meter' = NewStepMeters
                /\ metrics_history' = <<>>
                /\ best_metrics_values' = EmptyMap
                /\ upd_log' = EmptyLog
                /\ observed' = NoneObserved
        /\ UNCHANGED <<is_training_started, current_epoch, test_is_default,
                       ckpt, runs, testing, handlers, callbacks>>

ConstructNext ==
    \/ \E entries \in EntryLists : Construct(entries)
    \/ \E output \in [MetricNames("val") -> Values] :
           /\ constructed_spec.built
           /\ Step("val", output, 1, FALSE, MaxBatches)

ConstructSpec == Init /\ [][ConstructNext]_vars

StepKinds == {"step", "step_unmetered", "step_nonpositive"}

Malformed(best_metrics) ==
    \E name \in DOMAIN best_metrics :
        Len(name) < 2 \/ ~(best_metrics[name] = "min" \/ best_metrics[name] = "max")

\* C12: a construction whose best-metric spec has a name without separator
\* or a direction other than min and max raises and yields no module, and
\* every step is taken by a module whose spec has neither.
C12_MalformedSpecFailsConstruction ==
    [][/\ (last_call'.op = "construct" /\ Malformed(DictOf(last_call'.entries)))
          => (err' = "error" /\ constructed_spec' = NoInstance)
       /\ last_call'.op \in StepKinds
          => (constructed_spec.built /\ ~Malformed(constructed_spec.spec))]_vars

\* a spec whose name is well formed and whose direction is not was rejected
C12_Witness ==
    /\ last_call.op = "construct"
    /\ \E name \in DOMAIN DictOf(last_call.entries) :
           HasSeparator(name) /\ DictOf(last_call.entries)[name] = "avg"
    /\ err = "error"
    /\ constructed_spec = NoInstance

\* C13: a construction whose best_metrics configuration names a metric
\* twice raises.  Violated: the later entry silently replaces the earlier
\* one and the constructor returns a module.
C13_DuplicateNameRejected ==
    (/\ last_call.op = "construct"
     /\ \E i, j \in 1..Len(last_call.entries) :
            i # j /\ last_call.entries[i][1] = last_call.entries[j][1])
    => (err = "error" /\ constructed_spec = NoInstance)

(***************************************************************************)
(* Reading the best values: _get_best_value and _get_best_str called with  *)
(* any metric name between direct _update_best_metrics calls.              *)
(***************************************************************************)
\* the KeyError of _get_best_value, the assertion of _get_best_str
GetBestRaises(best, name) == name \notin DOMAIN best

\* _get_best_value(name)
GetBestValue(best, name) == best[name].value

\* _get_best_str(name): the value and the epoch it formats
GetBestStr(best, name) == [value |-> best[name].value, epoch |-> best[name].epoch]

NoResult == [value |-> Undefined, epoch |-> 0]

\* a faulty getter that answers a placeholder for a metric without a best
GetBestWithDefault(name, with_epoch) ==
    /\ err' = "ok"
    /\ last_call' =
          [op |-> "get_best", name |-> name, with_epoch |-> with_epoch,
           result |-> IF name \in DOMAIN best_metrics_values
                      THEN GetBestStr(best_metrics_values, name)
                      ELSE NoResult]
    /\ UNCHANGED <<handlers, callbacks, constructed_spec, metrics_meter, train_step_meter,
                   metrics_history, best_metrics_values, is_training_started,
                   current_epoch, patch_depth, test_is_default, ckpt, runs,
                   testing, upd_log, observed>>

\* self._get_best_value(name) / self._get_best_str(name)
GetBest(name, with_epoch) ==
    /\ IF GetBestRaises(best_metrics_values, name)
       THEN /\ err' = "error"
            /\ last_call' =
                  [op |-> "get_best", name |-> name,
                   with_epoch |-> with_epoch, result |-> NoResult]
       ELSE /\ err' = "ok"
            /\ last_call' =
                  [op |-> "get_best", name |-> name,
                   with_epoch |-> with_epoch,
                   result |->
                       IF with_epoch
                       THEN GetBestStr(best_metrics_values, name)
                       ELSE [NoResult EXCEPT !.value =
                                GetBestValue(best_metrics_values, name)]]
    /\ UNCHANGED <<handlers, callbacks, constructed_spec, metrics_meter, train_step_meter,
                   metrics_history, best_metrics_values, is_training_started,
                   current_epoch, patch_depth, test_is_default, ckpt, runs,
                   testing, upd_log, observed>>

QueryNext ==
    \/ OnEpochStart
    \/ \E metric_name \in BestNames, new_value \in BestValues :
           UpdateBest(metric_name, new_value)
    \/ \E name \in BestNames, with_epoch \in BOOLEAN : GetBest(name, with_epoch)

QuerySpec == Init /\ [][QueryNext]_vars

NeverObserved(name) ==
    name \in DOMAIN observed => observed[name] = {}

\* C14: reading the best value or the best epoch of a metric for which no
\* value was handed to update_best raises and returns nothing, also for a
\* metric of the best-metric spec; with a value observed it returns the
\* stored value.
C14_NoBestBeforeObservation ==
    [][last_call'.op = "get_best"
       => /\ best_metrics_values' = best_metrics_values
          /\ IF NeverObserved(last_call'.name)
             THEN err' = "error" /\ last_call'.result = NoResult
             ELSE /\ err' = "ok"
                  /\ last_call'.result.value =
                         best_metrics_values[last_call'.name].value]_vars

\* the best epoch of val/acc was asked for while only train/loss has a best
C14_Witness ==
    /\ last_call.op = "get_best"
    /\ last_call.name = <<"val", "acc">>
    /\ last_call.with_epoch
    /\ err = "error"
    /\ DOMAIN best_metrics_values = {<<"train", "loss">>}

(***************************************************************************)
(* Checkpoints read back in the same process: on_load_checkpoint is called *)
(* on the running module, whatever it holds, with the checkpoint file the  *)
(* trainer wrote earlier; or by a new process as before.                   *)
(***************************************************************************)
\* module.on_load_checkpoint(torch.load(file))
LoadCheckpoint ==
    LET s == OnLoadCheckpoint([history |-> metrics_history,
                               best |-> best_metrics_values], ckpt)
    IN  /\ ckpt.saved
        /\ ~testing
        /\ metrics_history' = s.history
        /\ best_metrics_values' = s.best
        /\ observed' = ckpt.observed
        /\ err' = "ok"
        /\ last_call' =
              [NoCall EXCEPT !.op = "load",
                             !.had = /\ metrics_history # <<>>
                                     /\ metrics_history # ckpt.history
                                     /\ best_metrics_values # ckpt.best]
        /\ UNCHANGED <<handlers, callbacks, constructed_spec, metrics_meter, train_step_meter,
                       is_training_started, current_epoch, patch_depth,
                       test_is_default, ckpt, runs, testing, upd_log>>

CheckpointNext ==
    \/ OnEpochStart
    \/ \E stage \in {"train", "val"} :
           \E output \in [MetricNames(stage) -> Values] :
               Step(stage, output, 1, TRUE, MaxBatches)
    \/ \E stage \in {"train", "val"} : EpochEndCall(stage)
    \/ OnSaveCheckpoint
    \/ LoadCheckpoint
    \/ \E resume \in BOOLEAN : Restore(resume)

CheckpointSpec == Init /\ [][CheckpointNext]_vars

\* C15: a checkpoint holds the history and the best values the saving
\* module has when it is saved, and a module that loads it has exactly
\* those afterwards, whatever it held before.
C15_SaveLoadRoundTrip ==
    [][/\ last_call'.op = "save"
          => /\ ckpt'.history = metrics_history
             /\ ckpt'.best = best_metrics_values
       /\ last_call'.op = "load"
          => /\ metrics_history' = ckpt.history
             /\ best_metrics_values' = ckpt.best
             /\ ckpt' = ckpt]_vars

\* a module that held another history and other best values has loaded a
\* checkpoint with records
C15_Witness ==
    /\ last_call.op = "load"
    /\ last_call.had
    /\ metrics_history = ckpt.history
    /\ best_metrics_values = ckpt.best
    /\ metrics_history # <<>>

(***************************************************************************)
(* Reading the epoch averages: _get_avg_epoch_metrics called for any stage *)
(* between the steps of a run.                                             *)
(***************************************************************************)
\* a faulty read that resets the meters it has read
ReadAndReset(stage) ==
    /\ metrics_meter' = ResetEpochMetrics(metrics_meter, stage)
    /\ err' = "ok"
    /\ last_call' = [op |-> "get_avg", stage |-> stage,
                     repeated |-> /\ last_call.op = "get_avg"
                                  /\ last_call.stage = stage,
                     result |-> GetAvgEpochMetrics(metrics_meter, stage)]
    /\ UNCHANGED <<handlers, callbacks, constructed_spec, train_step_meter, metrics_history,
                   best_metrics_values, is_training_started, current_epoch,
                   patch_depth, test_is_default, ckpt, runs, testing,
                   upd_log, observed>>

\* self._get_avg_epoch_metrics(stage)
GetAverages(stage) ==
    /\ err' = "ok"
    /\ last_call' = [op |-> "get_avg", stage |-> stage,
                     repeated |-> /\ last_call.op = "get_avg"
                                  /\ last_call.stage = stage,
                     result |-> GetAvgEpochMetrics(metrics_meter, stage)]
    /\ UNCHANGED <<handlers, callbacks, constructed_spec, metrics_meter, train_step_meter,
                   metrics_history, best_metrics_values, is_training_started,
                   current_epoch, patch_depth, test_is_default, ckpt, runs,
                   testing, upd_log, observed>>

AverageNext ==
    \/ OnEpochStart
    \/ BeginTest
    \/ \E stage \in StageSet, batch_size \in 1..MaxWeight :
           \E output \in [MetricNames(stage) -> Values] :
               Step(stage, output, batch_size, TRUE, MaxBatches)
    \/ \E stage \in StageSet : GetAverages(stage)

AverageSpec == Init /\ [][AverageNext]_vars

\* C16: reading the epoch averages of a stage changes no meter, no epoch
\* record and no best value, and a second read of the same stage right
\* after returns the same mapping.
C16_EpochAverageIsPureRead ==
    [][last_call'.op = "get_avg"
       => /\ metrics_meter' = metrics_meter
          /\ train_step_meter' = train_step_meter
          /\ metrics_history' = metrics_history
          /\ best_metrics_values' = best_metrics_values
          /\ (last_call.op = "get_avg" /\ last_call.stage = last_call'.stage)
             => last_call'.result = last_call.result]_vars

\* two reads in a row of a stage whose meters hold data
C16_Witness ==
    /\ last_call.op = "get_avg"
    /\ last_call.repeated
    /\ HasData(metrics_meter, last_call.stage)
    /\ last_call.result = GetAvgEpochMetrics(metrics_meter, last_call.stage)
    /\ \E name \in DOMAIN last_call.result : last_call.result[name] # Undefined

(***************************************************************************)
(* configure_trainer: the resolution of `resume` to a checkpoint file.     *)
(* A resume value is [kind, b, n, s] (a bool, an int or a str); a file     *)
(* name is <<stem, number>>: 'last' is <<"last", 0>>, 'epoch=N' is         *)
(* <<"epoch", N>>; a path is [abs, name, ext] below ckpt_dir or absolute,  *)
(* with or without the suffix '.ckpt'.                                     *)
(***************************************************************************)
ResumeBool(b) == [kind |-> "bool", b |-> b, n |-> 0, s |-> <<"", 0>>,
                  abs |-> FALSE, ext |-> FALSE]

ResumeInt(n) == [kind |-> "int", b |-> FALSE, n |-> n, s |-> <<"", 0>>,
                 abs |-> FALSE, ext |-> FALSE]

ResumeStr(s, abs, ext) == [kind |-> "str", b |-> FALSE, n |-> 0, s |-> s,
                           abs |-> abs, ext |-> ext]

ResumeValues ==
    {ResumeBool(b) : b \in BOOLEAN}
    \cup {ResumeInt(n) : n \in 0..MaxResume}
    \cup {ResumeStr(s, abs, ext) :
             s \in {<<"last", 0>>, <<"epoch", 1>>}, abs \in BOOLEAN,
             ext \in BOOLEAN}

Path(abs, name) == [abs |-> abs, name |-> name, ext |-> TRUE]

\* the checkpoint files that may exist
CkptFiles ==
    {Path(FALSE, <<"last", 0>>), Path(TRUE, <<"epoch", 1>>)}
    \cup {Path(FALSE, <<"epoch", n>>) : n \in 0..MaxResume}

\* `if resume:` - the truth value of a bool, an int or a str
Truthy(resume) ==
    CASE resume.kind = "bool" -> resume.b
      [] resume.kind = "int" -> resume.n # 0
      [] resume.kind = "str" -> resume.s # <<"", 0>>

\* lines 150-163: the path of the checkpoint to resume from
ResumePath(resume) ==
    CASE resume.kind = "bool" -> Path(FALSE, <<"last", 0>>)
      [] resume.kind = "int" -> Path(FALSE, <<"epoch", resume.n>>)
      [] resume.kind = "str" -> Path(resume.abs, resume.s)

NoPath == [abs |-> FALSE, name |-> <<"", 0>>, ext |-> FALSE]

\* lines 148-174: what configure_trainer does with resume when the files
\* of `exists` are on disk
ResolveResume(resume, exists) ==
    IF Truthy(resume)
    THEN IF ResumePath(resume) \in exists
         THEN [outcome |-> "resume", path |-> ResumePath(resume)]
         ELSE [outcome |-> "FileNotFoundError", path |-> ResumePath(resume)]
    ELSE [outcome |-> "new_run", path |-> NoPath]

\* configure_trainer(..., resume=resume)
ConfigureTrainer(resume, exists) ==
    LET r == ResolveResume(resume, exists)
    IN  /\ err' = IF r.outcome = "FileNotFoundError" THEN "error" ELSE "ok"
        /\ last_call' = [op |-> "configure_trainer", resume |-> resume,
                         exists |-> exists, outcome |-> r.outcome,
                         path |-> r.path]
        /\ UNCHANGED <<handlers, callbacks, constructed_spec, metrics_meter, train_step_meter,
                       metrics_history, best_metrics_values,
                       is_training_started, current_epoch, patch_depth,
                       test_is_default, ckpt, runs, testing, upd_log,
                       observed>>

TrainerNext ==
    \E resume \in ResumeValues, exists \in SUBSET CkptFiles :
        ConfigureTrainer(resume, exists)

TrainerSpec == Init /\ [][TrainerNext]_vars

\* C17: an integer resume N >= 0 resolves to ckpt_dir/epoch=N.ckpt and
\* resume=True to ckpt_dir/last.ckpt; the run resumes from that file when
\* it exists and raises FileNotFoundError when it does not.  Violated for
\* N = 0, which starts a new run.
C17_IntegerResumeResolves ==
    (/\ last_call.op = "configure_trainer"
     /\ \/ last_call.resume.kind = "int"
        \/ last_call.resume.kind = "bool" /\ last_call.resume.b)
    => LET expected ==
               IF last_call.resume.kind = "int"
               THEN [abs |-> FALSE, name |-> <<"epoch", last_call.resume.n>>,
                     ext |-> TRUE]
               ELSE [abs |-> FALSE, name |-> <<"last", 0>>, ext |-> TRUE]
       IN  /\ last_call.path = expected
           /\ last_call.outcome =
                  IF expected \in last_call.exists THEN "resume"
                  ELSE "FileNotFoundError"

(***************************************************************************)
(* hydra_override_name: the run name derived from the command-line         *)
(* overrides.  A key 'a.b' is the sequence of its parts; a pattern is a    *)
(* key (matching itself) or a key followed by "*" ('model.*').  An         *)
(* override 'key=value' is <<key, value>>.                                 *)
(***************************************************************************)
\* the keys, in the order Python gives their strings:
\* 'lr' < 'model.depth' < 'model.width'
OverrideKeys == <<(<<"lr">>), <<"model", "depth">>, <<"model", "width">>>>

OverrideKeySet == {OverrideKeys[i] : i \in 1..Len(OverrideKeys)}

KeyRank(key) == CHOOSE i \in 1..Len(OverrideKeys) : OverrideKeys[i] = key

OverridePatterns == {<<"lr">>, <<"model", "*">>, <<"model", "depth">>}

\* fnmatch.fnmatch(key, p) for these patterns
FnMatch(key, p) ==
    IF p[Len(p)] = "*"
    THEN /\ Len(key) >= Len(p)
         /\ SubSeq(key, 1, Len(p) - 1) = SubSeq(p, 1, Len(p) - 1)
    ELSE key = p

\* _match_patterns(patterns, key)
MatchPatterns(patterns, key) == \E p \in patterns : FnMatch(key, p)

\* include_keys: None, or a list of patterns
NoneKeys == [given |-> FALSE, patterns |-> {}]

KeyLists == {NoneKeys} \cup
            {[given |-> TRUE, patterns |-> ps] : ps \in SUBSET OverridePatterns}

\* a faulty selection in which exclude_keys is looked at first
ExcludeWins(include_keys, exclude_keys, key) ==
    /\ ~MatchPatterns(exclude_keys, key)
    /\ include_keys.given => MatchPatterns(include_keys.patterns, key)

\* lines 67-72: is the override of `key` appended
Appended(include_keys, exclude_keys, key) ==
    IF include_keys.given
    THEN MatchPatterns(include_keys.patterns, key)
    ELSE ~MatchPatterns(exclude_keys, key)

\* tuple comparison of (key, value)
ItemLeq(a, b) ==
    \/ KeyRank(a[1]) < KeyRank(b[1])
    \/ a[1] = b[1] /\ a[2] <= b[2]

\* list.sort()
RECURSIVE Insert(_, _)
Insert(sorted, item) ==
    IF sorted = <<>> THEN <<item>>
    ELSE IF ItemLeq(item, Head(sorted)) THEN <<item>> \o sorted
    ELSE <<Head(sorted)>> \o Insert(Tail(sorted), item)

RECURSIVE Sort(_)
Sort(items) ==
    IF items = <<>> THEN <<>>
    ELSE Insert(Sort(Tail(items)), Head(items))

\* the loop of lines 64-72 over hydra_override_arg_list()
RECURSIVE AppendedArgs(_, _, _)
AppendedArgs(overrides, include_keys, exclude_keys) ==
    IF overrides = <<>> THEN <<>>
    ELSE (IF Appended(include_keys, exclude_keys, Head(overrides)[1])
          THEN <<Head(overrides)>> ELSE <<>>)
         \o AppendedArgs(Tail(overrides), include_keys, exclude_keys)

\* hydra_override_name(cfg): '' without hydra, hydra's own override_dirname
\* without an omlet.override_name configuration, else the selected
\* overrides, sorted, to be joined by item_sep
HydraOverrideName(initialized, has_cfg, overrides, include_keys, exclude_keys) ==
    IF ~initialized THEN [how |-> "empty", items |-> <<>>]
    ELSE IF ~has_cfg
    THEN [how |-> "override_dirname", items |-> <<>>]
    ELSE [how |-> "derived",
          items |-> Sort(AppendedArgs(overrides, include_keys, exclude_keys))]

OverrideLists ==
    UNION {[1..n -> OverrideKeySet \X Values] : n \in 0..MaxOverrides}

OverrideName(initialized, has_cfg, overrides, include_keys, exclude_keys) ==
    /\ err' = "ok"
    /\ last_call' =
          [op |-> "override_name", overrides |-> overrides,
           include_keys |-> include_keys, exclude_keys |-> exclude_keys,
           result |-> HydraOverrideName(initialized, has_cfg, overrides,
                                        include_keys, exclude_keys)]
    /\ UNCHANGED <<handlers, callbacks, constructed_spec, metrics_meter, train_step_meter,
                   metrics_history, best_metrics_values, is_training_started,
                   current_epoch, patch_depth, test_is_default, ckpt, runs,
                   testing, upd_log, observed>>

\* the name of the run is derived once, when the process starts
OverrideNext ==
    /\ last_call = NoCall
    /\ \E initialized \in BOOLEAN, has_cfg \in BOOLEAN,
          overrides \in OverrideLists, include_keys \in KeyLists,
          exclude_keys \in SUBSET OverridePatterns :
           OverrideName(initialized, has_cfg, overrides, include_keys,
                        exclude_keys)

OverrideSpec == Init /\ [][OverrideNext]_vars

Occurrences(items, item) ==
    Cardinality({i \in 1..Len(items) : items[i] = item})

\* C18: in a derived override name, with include_keys given an override
\* appears iff its key matches an include pattern, whatever exclude_keys
\* holds; with include_keys None it appears iff its key matches no exclude
\* pattern; and the items are in sorted order.
C18_IncludeOverExclude ==
    (last_call.op = "override_name" /\ last_call.result.how = "derived")
    => LET items == last_call.result.items
           inc == last_call.include_keys
           exc == last_call.exclude_keys
       IN  /\ \A item \in OverrideKeySet \X Values :
                  LET wanted ==
                          IF inc.given
                          THEN \E p \in inc.patterns : FnMatch(item[1], p)
                          ELSE \A p \in exc : ~FnMatch(item[1], p)
                  IN  Occurrences(items, item) =
                          IF wanted
                          THEN Occurrences(last_call.overrides, item)
                          ELSE 0
           /\ \A i \in 1..Len(items) - 1 :
                  \/ KeyRank(items[i][1]) < KeyRank(items[i + 1][1])
                  \/ /\ items[i][1] = items[i + 1][1]
                     /\ items[i][2] <= items[i + 1][2]

\* include and exclude both match a key that is in the name, another
\* override is left out, and the overrides were given out of order
C18_Witness ==
    /\ last_call.op = "override_name"
    /\ last_call.result.how = "derived"
    /\ last_call.include_keys.given
    /\ Len(last_call.overrides) = 3
    /\ Len(last_call.result.items) = 2
    /\ \E i \in 1..2 :
           /\ MatchPatterns(last_call.exclude_keys, last_call.result.items[i][1])
           /\ MatchPatterns(last_call.include_keys.patterns,
                            last_call.result.items[i][1])
    /\ last_call.result.items # AppendedArgs(last_call.overrides,
                                             last_call.include_keys,
                                             last_call.exclude_keys)

\* C19: an epoch-end call made before the first on_epoch_start leaves the
\* history and the best values as they are, and every step that changes
\* the history or a best value is taken after training has started.
C19_NothingRecordedBeforeTraining ==
    [][/\ (~is_training_started /\ last_call'.op \in
              {"epoch_end_unrecorded", "epoch_end_append", "epoch_end_merge",
               "epoch_end_overwrite"})
          => /\ metrics_history' = metrics_history
             /\ best_metrics_values' = best_metrics_values
       /\ (\/ metrics_history' # metrics_history
           \/ best_metrics_values' # best_metrics_values)
          => (is_training_started \/ last_call'.op = "load")]_vars

\* the validation epoch-end of the sanity check has run on meters with
\* data in a fresh run: nothing is recorded
C19_Witness ==
    /\ last_call.op = "epoch_end_unrecorded"
    /\ last_call.stage = "val"
    /\ ~is_training_started
    /\ HasData(metrics_meter, "val")
    /\ metrics_history = <<>>
    /\ best_metrics_values = EmptyMap

(***************************************************************************)
(* The FileLogger callback (src/omlet/lightning/callbacks.py 123-156) and  *)
(* the handler lists of the logging module it writes to.  A handler is     *)
(* [flag, file]: flag says the handler carries the attribute               *)
(* FileLogger.FLAG, file is the path of a FileHandler or "stream".         *)
(***************************************************************************)
MaxRank == 1        \* trainer.proc_rank is 0..MaxRank

FilePaths == {"a.log", "b.log"}

\* the FileLogger objects that can be constructed: logger_name None is "root"
FileLoggers == [file_path : FilePaths, logger_name : LoggerNames]

\* create_colorlog_handler(), when colorlog is installed
ColorHandler == [flag |-> FALSE, file |-> "stream"]

\* the loop of add_handler: some handler of the logger has the FLAG
HasHandler(logger_handlers) ==
    \E i \in 1..Len(logger_handlers) : logger_handlers[i].flag

\* a faulty add_handler without the test of has_handler
AddsUnconditionally(all_handlers, self) ==
    [all_handlers EXCEPT ![self.logger_name] =
        Append(@, [flag |-> TRUE, file |-> self.file_path])]

\* FileLogger.add_handler on the handler lists of the process
AddHandler(all_handlers, self) ==
    IF HasHandler(all_handlers[self.logger_name])
    THEN all_handlers
    ELSE [all_handlers EXCEPT ![self.logger_name] =
             Append(@, [flag |-> TRUE, file |-> self.file_path])]

\* the record of a call of add_handler through the hook `op`
HandlerCall(op, self) ==
    [op |-> op, logger_name |-> self.logger_name, file_path |-> self.file_path,
     had |-> HasHandler(handlers[self.logger_name])]

FileLoggerFrame ==
    UNCHANGED <<metrics_meter, train_step_meter, metrics_history,
                best_metrics_values, is_training_started, current_epoch,
                patch_depth, test_is_default, ckpt, runs, testing, err,
                upd_log, observed, constructed_spec>>

\* FileLogger(file_path, logger_name): __init__ calls add_handler
NewFileLogger(file_path, logger_name) ==
    LET self == [file_path |-> file_path, logger_name |-> logger_name]
    IN  /\ callbacks' = callbacks \cup {self}
        /\ handlers' = AddHandler(handlers, self)
        /\ last_call' = HandlerCall("init", self)
        /\ FileLoggerFrame

\* self.add_handler() called directly
AddHandlerCall(self) ==
    /\ self \in callbacks
    /\ handlers' = AddHandler(handlers, self)
    /\ last_call' = HandlerCall("add_handler", self)
    /\ UNCHANGED callbacks
    /\ FileLoggerFrame

\* on_init_start(trainer)
OnInitStart(self) ==
    /\ self \in callbacks
    /\ handlers' = AddHandler(handlers, self)
    /\ last_call' = HandlerCall("on_init_start", self)
    /\ UNCHANGED callbacks
    /\ FileLoggerFrame

\* on_sanity_check_start(trainer, pl_module)
OnSanityCheckStart(self, proc_rank) ==
    /\ self \in callbacks
    /\ handlers' = IF proc_rank = 0 THEN AddHandler(handlers, self)
                   ELSE handlers
    /\ last_call' = HandlerCall("on_sanity_check_start", self)
    /\ UNCHANGED callbacks
    /\ FileLoggerFrame

\* on_train_start(trainer, pl_module)
OnTrainStart(self, proc_rank) ==
    /\ self \in callbacks
    /\ handlers' = IF proc_rank = 0 THEN AddHandler(handlers, self)
                   ELSE handlers
    /\ last_call' = HandlerCall("on_train_start", self)
    /\ UNCHANGED callbacks
    /\ FileLoggerFrame

\* U.get_logger(name) on the handler lists: with colorlog the handlers of
\* the logger are replaced by one color handler
GetLogger(all_handlers, name, has_colorlog) ==
    IF has_colorlog
    THEN [all_handlers EXCEPT ![name] = <<ColorHandler>>]
    ELSE all_handlers

\* U.override_loggers(): the root logger loses its handlers, then
\* get_logger('omlet') and get_logger('lightning')
OverrideLoggers(has_colorlog) ==
    /\ handlers' =
          GetLogger(GetLogger([handlers EXCEPT !["root"] = <<>>],
                              "omlet", has_colorlog),
                    "lightning", has_colorlog)
    /\ last_call' = [op |-> "override_loggers", logger_name |-> "root",
                     file_path |-> "none", had |-> HasHandler(handlers["root"])]
    /\ UNCHANGED callbacks
    /\ FileLoggerFrame

FileLoggerNext ==
    \/ \E file_path \in FilePaths, logger_name \in LoggerNames :
           NewFileLogger(file_path, logger_name)
    \/ \E self \in FileLoggers : AddHandlerCall(self)
    \/ \E self \in FileLoggers : OnInitStart(self)
    \/ \E self \in FileLoggers, proc_rank \in 0..MaxRank :
           OnSanityCheckStart(self, proc_rank)
    \/ \E self \in FileLoggers, proc_rank \in 0..MaxRank :
           OnTrainStart(self, proc_rank)
    \/ \E has_colorlog \in BOOLEAN : OverrideLoggers(has_colorlog)

FileLoggerSpec == Init /\ [][FileLoggerNext]_vars

\* the handlers of a logger that carry the FileLogger flag
Flagged(logger_name) ==
    {i \in 1..Len(handlers[logger_name]) : handlers[logger_name][i].flag}

\* C21: after any sequence of FileLogger construction, add_handler,
\* on_init_start, on_sanity_check_start and on_train_start calls, every
\* logger carries at most one handler marked with the FileLogger flag.
C21_AtMostOneFileHandler ==
    \A logger_name \in LoggerNames : Cardinality(Flagged(logger_name)) <= 1

\* two FileLoggers with different files write to the same logger, which
\* also has a color handler; the last hook call found the flagged handler
\* of the other FileLogger and the logger still has exactly one
C21_Witness ==
    /\ last_call.op \in
          {"add_handler", "on_init_start", "on_sanity_check_start",
           "on_train_start"}
    /\ last_call.had
    /\ \E self \in callbacks :
           /\ self.logger_name = last_call.logger_name
           /\ self.file_path # last_call.file_path
    /\ Cardinality(Flagged(last_call.logger_name)) = 1
    /\ \A i \in Flagged(last_call.logger_name) :
           handlers[last_call.logger_name][i].file # last_call.file_path
    /\ Len(handlers[last_call.logger_name]) = 2

(***************************************************************************)
(* Training with validation run more than once per training epoch          *)
(* (val_check_interval < 1): the validation loop and validation_epoch_end  *)
(* run again in the same epoch, on meters that on_epoch_start reset once.  *)
(***************************************************************************)
ValCheckNext ==
    \/ OnEpochStart
    \/ \E stage \in {"train", "val"} :
           \E output \in [MetricNames(stage) -> Values] :
               Step(stage, output, 1, TRUE, MaxUpdates)
    \/ \E stage \in {"train", "val"} : EpochEndCall(stage)

ValCheckSpec == Init /\ [][ValCheckNext]_vars

\* the history has a record of epoch `epoch` whose entry for metric m is
\* `value`
Recorded(history, m, value, epoch) ==
    \E i \in 1..Len(history) :
        /\ history[i].epoch = epoch
        /\ m[2] \in DOMAIN history[i][m[1]]
        /\ history[i][m[1]][m[2]] = value

\* C22: whenever a best value is stored for a metric 'stage/name' with
\* epoch e, the history contains a record with epoch index e whose entry
\* for that stage and name equals the stored best value.
C22_BestValueIsRecorded ==
    \A m \in DOMAIN best_metrics_values :
        Recorded(metrics_history, m, best_metrics_values[m].value,
                 best_metrics_values[m].epoch)

(***************************************************************************)
(* Frame of a stage's step and epoch-end.                                  *)
(***************************************************************************)
EpochEndKinds ==
    {"epoch_end_unrecorded", "epoch_end_append", "epoch_end_merge",
     "epoch_end_overwrite"}

\* the sub-mapping of `stage` in the record of `epoch`, empty when the last
\* record of the history is not of that epoch
SubMapping(history, stage, epoch) ==
    IF history # <<>> /\ history[Len(history)].epoch = epoch
    THEN history[Len(history)][stage]
    ELSE EmptyMap

\* the best values stored for the metrics 'stage/...'
BestOfStage(best, stage) ==
    [m \in {k \in DOMAIN best : k[1] = stage} |-> best[m]]

\* C23: a step or epoch-end of one stage touches only that stage's
\* bookkeeping: a step of the test loop leaves the training and validation
\* meters unchanged (and a step outside it the test meters), and an
\* epoch-end of a stage leaves all meters, the sub-mappings of the other
\* stages in the record of the epoch and the best values of the other
\* stages unchanged, also with the default test_step / test_epoch_end.
C23_StageTouchesOwnBookkeeping ==
    [][/\ (last_call'.op \in StepKinds /\ testing)
          => /\ metrics_meter'["train"] = metrics_meter["train"]
             /\ metrics_meter'["val"] = metrics_meter["val"]
             /\ train_step_meter' = train_step_meter
       /\ (last_call'.op \in StepKinds /\ ~testing)
          => metrics_meter'["test"] = metrics_meter["test"]
       /\ last_call'.op \in EpochEndKinds
          => /\ metrics_meter' = metrics_meter
             /\ \A other \in StageSet \ {last_call'.stage} :
                    /\ SubMapping(metrics_history', other, current_epoch)
                         = SubMapping(metrics_history, other, current_epoch)
                    /\ BestOfStage(best_metrics_values', other)
                         = BestOfStage(best_metrics_values, other)]_vars

(***************************************************************************)
(* Several instances of the module class in one process: the class is      *)
(* instantiated once or more before the run, then steps and epoch-ends of  *)
(* every stage are called on the last instance.                            *)
(***************************************************************************)
InstanceNext ==
    \/ NewInstance
    \/ OnEpochStart
    \/ BeginTest
    \/ \E stage \in StageSet :
           \E output \in [MetricNames(stage) -> Values] :
               Step(stage, output, 1, TRUE, MaxBatches)
    \/ \E stage \in StageSet : EpochEndCall(stage)

InstanceSpec == Init /\ [][InstanceNext]_vars

\* the number of update calls a step has added to the meter of stage/name
Folded(stage, name) == Len(upd_log'[stage][name]) - Len(upd_log[stage][name])

\* C24: whatever the number of instances of the class created so far, one
\* metered step folds the batch into the epoch meters exactly once (some
\* meter gets one update and none gets more than one), and one epoch-end
\* call of a stage with its own epoch-end method has the effect of one run
\* of the epoch-end bookkeeping.
C24_InstancesDoNotChangeBookkeeping ==
    [][/\ last_call'.op = "step"
          => /\ \E stage \in StageSet :
                    \E name \in MetricNames(stage) : Folded(stage, name) = 1
             /\ \A stage \in StageSet :
                    \A name \in MetricNames(stage) : Folded(stage, name) <= 1
       /\ (/\ last_call'.op \in EpochEndKinds
           /\ ~(last_call'.stage = "test" /\ test_is_default))
          => LET s == EpochEnd([history |-> metrics_history,
                                best |-> best_metrics_values],
                               metrics_meter, is_training_started,
                               last_call'.stage, current_epoch)
             IN  /\ metrics_history' = s.history
                 /\ best_metrics_values' = s.best]_vars

====
